---- MODULE Spec2Model ----
(***************************************************************************)
(* Model of climate_data_app.py: the filename year decoder, the            *)
(* whitespace-separated file reader and the run that aggregates station    *)
(* files into one table with a trailing "Mean" row.                        *)
(*                                                                         *)
(* Strings are sequences of one-character strings, so that the regular     *)
(* expression and the numeric parse are computed character by character.   *)
(***************************************************************************)
EXTENDS Integers, Sequences, FiniteSets, TLC

VARIABLES
    mode,          \* which entry point this behaviour exercises
    pc,            \* position in the entry point's code
    filename,      \* argument of extract_year_from_filename
    full_year,     \* its return value
    filepath,      \* the file read_custom_space_separated_file is given
    extracted_data, \* its return value
    \* run_climate_processor
    num_stations,
    station_names,
    target_year,
    base_isdir,     \* os.path.isdir(base_path)
    station_dirs,   \* the station paths that are directories
    dir_entries,    \* path -> what os.listdir returns there, once listed
    valid_station_paths,
    station_idx,    \* index of the station loop under way
    file_idx,       \* index of the directory entry loop under way
    current_station_data_parts,
    found_files_for_station_year,
    all_station_series,
    df_consolidated,
    df_processed,
    df_final,
    export_attempts,
    outcome,        \* how the run ended
    log             \* the messages printed, in order

yvars == <<filename, full_year>>
rvars == <<filepath, extracted_data>>
invars == <<num_stations, station_names, target_year>>
fsvars == <<base_isdir, station_dirs, dir_entries>>
loopvars == <<valid_station_paths, station_idx, file_idx, current_station_data_parts,
              found_files_for_station_year, all_station_series>>
dfvars == <<df_consolidated, df_processed, df_final>>
endvars == <<export_attempts, outcome, log>>
runvars == <<invars, fsvars, loopvars, dfvars, endvars>>

vars == <<mode, pc, yvars, rvars, runvars>>

----------------------------------------------------------------------------
(* Bounds of the model *)

MaxNameLen == 5

MaxFields == 2

MaxLines == 2

MaxStations == 2

MaxEntries == 2

----------------------------------------------------------------------------
(* Characters *)

DigitChars == {"0", "1", "2", "3", "4", "5", "6", "7", "8", "9"}

NameChars == {"a", ".", "0", "1", "5", "\n"}

DigitVal(c) ==
    CASE c = "0" -> 0 [] c = "1" -> 1 [] c = "2" -> 2 [] c = "3" -> 3
      [] c = "4" -> 4 [] c = "5" -> 5 [] c = "6" -> 6 [] c = "7" -> 7
      [] c = "8" -> 8 [] c = "9" -> 9

SeqsUpTo(S, n) == UNION {[1..k -> S] : k \in 0..n}

----------------------------------------------------------------------------
(* extract_year_from_filename *)

None == [some |-> FALSE, val |-> 0]
Some(v) == [some |-> TRUE, val |-> v]

\* `$` without re.MULTILINE: the end of the string, or just before a newline
\* that is the last character.
AtDollar(s, j) == j = Len(s) + 1 \/ (j = Len(s) /\ s[j] = "\n")

\* (?:\.[^.]*)?$ tried at position j: the group taken (a dot, then any run
\* of non-dot characters up to e) or skipped, then `$`.
TailMatches(s, j) ==
    \/ /\ j <= Len(s)
       /\ s[j] = "."
       /\ \E e \in (j + 1)..(Len(s) + 1) :
            /\ \A k \in (j + 1)..(e - 1) : s[k] # "."
            /\ AtDollar(s, e)
    \/ AtDollar(s, j)

\* The pattern without its tail: a dot and two digits anywhere.
MatchAtNoAnchor(s, i) ==
    /\ i + 2 <= Len(s)
    /\ s[i] = "."
    /\ s[i + 1] \in DigitChars
    /\ s[i + 2] \in DigitChars

\* \.(\d{2})(?:\.[^.]*)?$ matched with its first character at position i.
MatchAt(s, i) ==
    /\ i + 2 <= Len(s)
    /\ s[i] = "."
    /\ s[i + 1] \in DigitChars
    /\ s[i + 2] \in DigitChars
    /\ TailMatches(s, i + 3)

\* re.search: the leftmost position at which the pattern matches, 0 if none.
re_search(s) ==
    IF \E i \in 1..Len(s) : MatchAt(s, i)
    THEN CHOOSE i \in 1..Len(s) :
            MatchAt(s, i) /\ \A j \in 1..(i - 1) : ~MatchAt(s, j)
    ELSE 0

\* int(match.group(1))
two_digit_year(s) ==
    LET i == re_search(s) IN 10 * DigitVal(s[i + 1]) + DigitVal(s[i + 2])

\* The boundary tag 50 taken for 1950.
CenturyGE(t) == IF t >= 50 THEN 1900 + t ELSE 2000 + t

\* No century inference: every tag taken for the 1900s.
CenturyNineteen(t) == 1900 + t

Century(t) == IF t > 50 THEN 1900 + t ELSE 2000 + t

extract_year_from_filename(s) ==
    IF re_search(s) # 0 THEN Some(Century(two_digit_year(s))) ELSE None

----------------------------------------------------------------------------
(* Cells: Numeric (the rational num/den), Missing (NaN), Label (text) *)

Numeric(v) == [kind |-> "Numeric", num |-> v, den |-> 1, text |-> ""]
Missing == [kind |-> "Missing", num |-> 0, den |-> 1, text |-> ""]
Label(t) == [kind |-> "Label", num |-> 0, den |-> 1, text |-> t]

----------------------------------------------------------------------------
(* read_custom_space_separated_file *)

\* A file is [readable, lines]; a line is the sequence of its
\* whitespace-separated fields; a field is a sequence of characters.
NoFile == [readable |-> FALSE, lines |-> <<>>]

\* The function's None.
NoData == [ok |-> FALSE, series |-> <<>>]

RECURSIVE DecimalValue(_)
DecimalValue(tok) ==
    IF tok = <<>> THEN 0
    ELSE 10 * DecimalValue(SubSeq(tok, 1, Len(tok) - 1)) + DigitVal(tok[Len(tok)])

\* pd.to_numeric(..., errors='coerce') on one field: its value when the
\* field is a number, NaN otherwise.
to_numeric(tok) ==
    IF tok # <<>> /\ \A k \in 1..Len(tok) : tok[k] \in DigitChars
    THEN Numeric(DecimalValue(tok))
    ELSE Missing

\* pd.read_csv(filepath, header=None, delim_whitespace=True): blank lines
\* are skipped, the first row fixes the number of columns, a longer row is a
\* parse error, a shorter row is filled with NaN (the empty field here).
read_csv(file) ==
    LET rows == SelectSeq(file.lines, LAMBDA l : l # <<>>)
    IN  IF ~file.readable THEN [ok |-> FALSE, shape1 |-> 0, rows |-> <<>>]
        ELSE IF rows = <<>> THEN [ok |-> FALSE, shape1 |-> 0, rows |-> <<>>]
        ELSE IF \E i \in 1..Len(rows) : Len(rows[i]) > Len(rows[1])
             THEN [ok |-> FALSE, shape1 |-> 0, rows |-> <<>>]
        ELSE [ok |-> TRUE, shape1 |-> Len(rows[1]),
              rows |-> [i \in 1..Len(rows) |->
                          [c \in 1..Len(rows[1]) |->
                             IF c <= Len(rows[i]) THEN rows[i][c] ELSE <<>>]]]

\* The variant the code's comment rules out: to_numeric followed by dropna().
read_with_dropna(file) ==
    LET df == read_csv(file)
    IN  IF ~df.ok \/ df.shape1 < 2 THEN NoData
        ELSE [ok |-> TRUE,
              series |-> SelectSeq([i \in 1..Len(df.rows) |-> to_numeric(df.rows[i][2])],
                                   LAMBDA c : c.kind # "Missing")]

read_custom_space_separated_file(file) ==
    LET df == read_csv(file)
    IN  IF ~df.ok THEN NoData
        ELSE IF df.shape1 < 2 THEN NoData
        ELSE [ok |-> TRUE,
              series |-> [i \in 1..Len(df.rows) |-> to_numeric(df.rows[i][2])]]

----------------------------------------------------------------------------
(* Tables: [columns |-> names, data |-> one sequence of cells per column] *)

EmptyTable == [columns |-> <<>>, data |-> <<>>]

\* The state of run_climate_processor before its first statement.
RunIdle ==
    /\ num_stations = 0
    /\ station_names = <<>>
    /\ target_year = 0
    /\ valid_station_paths = <<>>
    /\ station_idx = 0
    /\ file_idx = 0
    /\ current_station_data_parts = <<>>
    /\ found_files_for_station_year = FALSE
    /\ all_station_series = <<>>
    /\ df_consolidated = EmptyTable
    /\ df_processed = EmptyTable
    /\ df_final = EmptyTable
    /\ export_attempts = 0
    /\ outcome = "running"
    /\ log = <<>>
    /\ base_isdir = FALSE
    /\ station_dirs = {}
    /\ dir_entries = <<>>

----------------------------------------------------------------------------
(* run_climate_processor: paths, directory contents, pandas operations *)

StationNames == {"A", "B"}

\* What input(...).strip() can give at the station-name prompt.
NameInputs == StationNames \cup {""}

\* What int(input(...)) can give at the year prompt.
YearInputs == {1899, 1950, 1951, 2051, 2100}

base_path == <<"climate data">>

\* os.path.join(path, name) and os.path.basename(path)
path_join(path, name) == Append(path, name)
basename(path) == path[Len(path)]

StationPaths == {path_join(base_path, n) : n \in StationNames}

\* f"{station_name}_Data"
DataKey(station_name) == <<station_name, "_Data">>

\* File contents met in station folders.
ThreeRecords ==
    [readable |-> TRUE,
     lines |-> << <<<<"1">>, <<"1", "0">>>>,
                  <<<<"2">>, <<"1", "x">>>>,
                  <<<<"3">>, <<"1", "2">>>> >>]
OneBadRecord == [readable |-> TRUE, lines |-> << <<<<"1">>, <<"x">>>> >>]
OneColumn == [readable |-> TRUE, lines |-> << <<<<"1">>>>, <<<<"2">>>> >>]

\* Directory entries met in station folders: [name, isdir, file].
DirEntries ==
    { [name |-> <<"s", ".", "5", "1">>, isdir |-> TRUE, file |-> NoFile],
      [name |-> <<"r", ".", "t">>, isdir |-> FALSE, file |-> ThreeRecords],
      [name |-> <<"a", ".", "5", "0">>, isdir |-> FALSE, file |-> ThreeRecords],
      [name |-> <<"a", ".", "5", "1">>, isdir |-> FALSE, file |-> ThreeRecords],
      [name |-> <<"b", ".", "5", "1", ".", "t">>, isdir |-> FALSE, file |-> OneBadRecord],
      [name |-> <<"c", ".", "5", "1">>, isdir |-> FALSE, file |-> OneColumn] }

\* The entries met in the folders of a whole run.
RunDirEntries ==
    {e \in DirEntries : ~e.isdir /\ extract_year_from_filename(e.name) # None}

\* What os.listdir can return: entries with distinct names, in any order.
\* The station loop checked alone meets every kind of entry, a whole run
\* the files that carry a year tag.
Listings(m) ==
    {l \in SeqsUpTo(IF m = "station" THEN DirEntries ELSE RunDirEntries, MaxEntries) :
        \A a, b \in 1..Len(l) : a # b => l[a].name # l[b].name}

Unlisted == [listed |-> FALSE, entries |-> <<>>]

Event(kind, st, en) == [kind |-> kind, st |-> st, en |-> en]

RECURSIVE Flatten(_)
Flatten(parts) ==
    IF parts = <<>> THEN <<>> ELSE Head(parts) \o Flatten(Tail(parts))

RECURSIVE FlattenReversed(_)
FlattenReversed(parts) ==
    IF parts = <<>> THEN <<>> ELSE FlattenReversed(Tail(parts)) \o Head(parts)

\* A concatenation that puts the latest part first.
concat_rows_reversed(parts) == FlattenReversed(parts)

\* pd.concat(parts, ignore_index=True)
concat_rows(parts) == Flatten(parts)

\* A dict assignment that adds an entry even when the key is present.
DictAppend(d, key, value) == Append(d, [key |-> key, series |-> value])

\* Assignment d[key] = value on a dict: an existing key keeps its place.
DictSet(d, key, value) ==
    IF \E k \in 1..Len(d) : d[k].key = key
    THEN [k \in 1..Len(d) |->
            IF d[k].key = key THEN [key |-> key, series |-> value] ELSE d[k]]
    ELSE Append(d, [key |-> key, series |-> value])

\* Lines 153-156 with the guard dropped: a column for every station.
collect_always(d, station_name, parts) ==
    DictAppend(d, DataKey(station_name), Flatten(parts))

\* Lines 153-156: a station with accumulated parts gets its column.
collect(d, station_name, parts) ==
    IF parts # <<>>
    THEN DictSet(d, DataKey(station_name), concat_rows(parts))
    ELSE d

MaxOf(S) == CHOOSE m \in S : \A x \in S : x <= m

MinOf(S) == CHOOSE m \in S : \A x \in S : m <= x

\* pd.concat(series, axis=1, join='inner'): only the rows every column has.
concat_columns_inner(d) ==
    LET n == MinOf({Len(d[k].series) : k \in 1..Len(d)})
    IN  [columns |-> [k \in 1..Len(d) |-> d[k].key],
         data |-> [k \in 1..Len(d) |-> SubSeq(d[k].series, 1, n)]]

\* pd.concat(series, axis=1): the outer join of the 0..len-1 indexes, so
\* every column gets the longest length and NaN where it has no row.
concat_columns(d) ==
    LET n == MaxOf({Len(d[k].series) : k \in 1..Len(d)})
    IN  [columns |-> [k \in 1..Len(d) |-> d[k].key],
         data |-> [k \in 1..Len(d) |->
                     [r \in 1..n |->
                        IF r <= Len(d[k].series) THEN d[k].series[r] ELSE Missing]]]

NumRows(df) == IF df.data = <<>> THEN 0 ELSE Len(df.data[1])

\* df.insert(0, 'Day_of_Year', pd.Series(range(1, rows + 1)))
insert_day_of_year(df) ==
    [columns |-> <<<<"Day_of_Year">>>> \o df.columns,
     data |-> <<[r \in 1..NumRows(df) |-> Numeric(r)]>> \o df.data]

RECURSIVE GCD(_, _)
GCD(a, b) == IF b = 0 THEN a ELSE GCD(b, a % b)

RECURSIVE SumNumeric(_)
SumNumeric(col) ==
    IF col = <<>> THEN 0
    ELSE (IF Head(col).kind = "Numeric" THEN Head(col).num ELSE 0)
         + SumNumeric(Tail(col))

CountNumeric(col) == Cardinality({r \in 1..Len(col) : col[r].kind = "Numeric"})

Fraction(a, b) ==
    LET g == GCD(a, b)
    IN  IF g = 0 THEN [kind |-> "Numeric", num |-> 0, den |-> 1, text |-> ""]
        ELSE [kind |-> "Numeric", num |-> a \div g, den |-> b \div g, text |-> ""]

\* A mean that divides by the number of rows, NaN rows included.
mean_over_rows(col) == Fraction(SumNumeric(col), Len(col))

\* Series.mean(): NaN is skipped; an all-NaN column has mean NaN.
mean(col) ==
    IF CountNumeric(col) = 0 THEN Missing
    ELSE Fraction(SumNumeric(col), CountNumeric(col))

\* The row appended by lines 193-202: "Mean" under Day_of_Year, each data
\* column's mean under its own name.
append_mean_row(df) ==
    [columns |-> df.columns,
     data |-> [c \in 1..Len(df.columns) |->
                 Append(df.data[c],
                        IF c = 1 THEN Label("Mean") ELSE mean(df.data[c]))]]

----------------------------------------------------------------------------
(* Specification of the year decoder alone *)

InitYear ==
    /\ mode = "year"
    /\ pc = "call"
    /\ filename \in SeqsUpTo(NameChars, MaxNameLen)
    /\ full_year = None
    /\ filepath = NoFile
    /\ extracted_data = NoData
    /\ RunIdle

DecodeYear ==
    /\ mode = "year"
    /\ pc = "call"
    /\ full_year' = extract_year_from_filename(filename)
    /\ pc' = "ret"
    /\ UNCHANGED <<mode, filename, rvars, runvars>>

NextYear == DecodeYear

SpecYear == InitYear /\ [][NextYear]_vars

----------------------------------------------------------------------------
(* Specification of the file reader alone *)

FieldTokens == {<<"7">>, <<"1", "2">>, <<"1", "x">>}

FileLines == SeqsUpTo(SeqsUpTo(FieldTokens, MaxFields), MaxLines)

InitRead ==
    /\ mode = "read"
    /\ pc = "call"
    /\ filename = <<>>
    /\ full_year = None
    /\ filepath \in [readable : BOOLEAN, lines : FileLines]
    /\ extracted_data = NoData
    /\ RunIdle

ReadFile ==
    /\ mode = "read"
    /\ pc = "call"
    /\ extracted_data' = read_custom_space_separated_file(filepath)
    /\ pc' = "ret"
    /\ UNCHANGED <<mode, yvars, filepath, runvars>>

NextRead == ReadFile

SpecRead == InitRead /\ [][NextRead]_vars

----------------------------------------------------------------------------
(* Specification of a run of run_climate_processor *)

Init ==
    /\ mode = "run"
    /\ pc = "num_stations"
    /\ filename = <<>>
    /\ full_year = None
    /\ filepath = NoFile
    /\ extracted_data = NoData
    /\ num_stations = 0
    /\ station_names = <<>>
    /\ target_year = 0
    /\ base_isdir \in BOOLEAN
    /\ station_dirs \in SUBSET StationPaths
    /\ (~base_isdir => station_dirs = {})
    /\ dir_entries = [p \in StationPaths |-> Unlisted]
    /\ valid_station_paths = <<>>
    /\ station_idx = 0
    /\ file_idx = 0
    /\ current_station_data_parts = <<>>
    /\ found_files_for_station_year = FALSE
    /\ all_station_series = <<>>
    /\ df_consolidated = EmptyTable
    /\ df_processed = EmptyTable
    /\ df_final = EmptyTable
    /\ export_attempts = 0
    /\ outcome = "running"
    /\ log = <<>>

\* Lines 58-66: a count that is not positive is asked for again.
InputNumStations ==
    /\ mode = "run"
    /\ pc = "num_stations"
    /\ \E n \in 0..MaxStations :
         IF n <= 0
         THEN UNCHANGED <<num_stations, pc>>
         ELSE num_stations' = n /\ pc' = "names"
    /\ UNCHANGED <<mode, yvars, rvars, station_names, target_year, fsvars,
                   loopvars, dfvars, endvars>>

\* Lines 70-77: an empty name is asked for again.
InputStationName ==
    /\ mode = "run"
    /\ pc = "names"
    /\ \E name \in NameInputs :
         IF name # ""
         THEN /\ station_names' = Append(station_names, name)
              /\ pc' = IF Len(station_names) + 1 = num_stations
                       THEN "year" ELSE "names"
         ELSE UNCHANGED <<station_names, pc>>
    /\ UNCHANGED <<mode, yvars, rvars, num_stations, target_year, fsvars,
                   loopvars, dfvars, endvars>>

\* Lines 87-95: a year outside 1900..2099 is asked for again.
InputTargetYear ==
    /\ mode = "run"
    /\ pc = "year"
    /\ \E y \in YearInputs :
         IF ~(1900 <= y /\ y <= 2099)
         THEN UNCHANGED <<target_year, pc>>
         ELSE target_year' = y /\ pc' = "base"
    /\ UNCHANGED <<mode, yvars, rvars, num_stations, station_names, fsvars,
                   loopvars, dfvars, endvars>>

\* Lines 101-106
CheckBasePath ==
    /\ mode = "run"
    /\ pc = "base"
    /\ IF ~base_isdir
       THEN /\ outcome' = "base_missing"
            /\ pc' = "done"
            /\ UNCHANGED station_idx
       ELSE /\ pc' = "validate"
            /\ station_idx' = 1
            /\ UNCHANGED outcome
    /\ UNCHANGED <<mode, yvars, rvars, invars, fsvars, valid_station_paths,
                   file_idx, current_station_data_parts,
                   found_files_for_station_year, all_station_series, dfvars,
                   export_attempts, log>>

\* Lines 108-114 with a missing folder ending the run.
ValidateStationFolderStrict ==
    /\ mode = "run"
    /\ pc = "validate"
    /\ station_idx <= Len(station_names)
    /\ LET station_folder_path == path_join(base_path, station_names[station_idx])
       IN  IF station_folder_path \in station_dirs
           THEN /\ valid_station_paths' = Append(valid_station_paths, station_folder_path)
                /\ log' = Append(log, Event("found_folder", station_idx, 0))
                /\ UNCHANGED <<pc, outcome>>
           ELSE /\ UNCHANGED valid_station_paths
                /\ log' = Append(log, Event("folder_not_found", station_idx, 0))
                /\ pc' = "done"
                /\ outcome' = "no_valid_folders"
    /\ station_idx' = station_idx + 1
    /\ UNCHANGED <<mode, yvars, rvars, invars, fsvars, file_idx,
                   current_station_data_parts, found_files_for_station_year,
                   all_station_series, dfvars, export_attempts>>

\* Lines 108-114, one station name
ValidateStationFolder ==
    /\ mode = "run"
    /\ pc = "validate"
    /\ station_idx <= Len(station_names)
    /\ LET station_folder_path == path_join(base_path, station_names[station_idx])
       IN  IF station_folder_path \in station_dirs
           THEN /\ valid_station_paths' = Append(valid_station_paths, station_folder_path)
                /\ log' = Append(log, Event("found_folder", station_idx, 0))
           ELSE /\ UNCHANGED valid_station_paths
                /\ log' = Append(log, Event("folder_not_found", station_idx, 0))
    /\ station_idx' = station_idx + 1
    /\ UNCHANGED <<mode, pc, yvars, rvars, invars, fsvars, file_idx,
                   current_station_data_parts, found_files_for_station_year,
                   all_station_series, dfvars, export_attempts, outcome>>

\* Lines 116-122
CheckValidStationPaths ==
    /\ mode = "run"
    /\ pc = "validate"
    /\ station_idx > Len(station_names)
    /\ IF valid_station_paths = <<>>
       THEN /\ outcome' = "no_valid_folders"
            /\ pc' = "done"
            /\ UNCHANGED station_idx
       ELSE /\ pc' = "station"
            /\ station_idx' = 1
            /\ UNCHANGED outcome
    /\ UNCHANGED <<mode, yvars, rvars, invars, fsvars, valid_station_paths,
                   file_idx, current_station_data_parts,
                   found_files_for_station_year, all_station_series, dfvars,
                   export_attempts, log>>

\* Lines 123-128: the start of one station, up to os.listdir.
BeginStation ==
    /\ mode \in {"run", "station"}
    /\ pc = "station"
    /\ station_idx <= Len(valid_station_paths)
    /\ LET station_path == valid_station_paths[station_idx]
       IN  IF dir_entries[station_path].listed
           THEN UNCHANGED dir_entries
           ELSE \E l \in Listings(mode) :
                  dir_entries' = [dir_entries EXCEPT
                                    ![station_path] = [listed |-> TRUE, entries |-> l]]
    /\ current_station_data_parts' = <<>>
    /\ found_files_for_station_year' = FALSE
    /\ file_idx' = 1
    /\ pc' = "entries"
    /\ UNCHANGED <<mode, yvars, rvars, invars, base_isdir, station_dirs,
                   valid_station_paths, station_idx, all_station_series,
                   dfvars, endvars>>

\* Lines 128-151: one directory entry.
ProcessEntry ==
    /\ mode \in {"run", "station"}
    /\ pc = "entries"
    /\ LET listing == dir_entries[valid_station_paths[station_idx]].entries
       IN  /\ file_idx <= Len(listing)
           /\ LET entry == listing[file_idx]
                  file_year == extract_year_from_filename(entry.name)
                  data == read_custom_space_separated_file(entry.file)
              IN  IF entry.isdir
                  THEN /\ log' = Append(log, Event("skip_directory", station_idx, file_idx))
                       /\ UNCHANGED <<current_station_data_parts,
                                      found_files_for_station_year>>
                  ELSE IF file_year = Some(target_year)
                  THEN /\ found_files_for_station_year' = TRUE
                       /\ IF data.ok
                          THEN /\ current_station_data_parts' =
                                     Append(current_station_data_parts, data.series)
                               /\ log' = Append(log, Event("read", station_idx, file_idx))
                          ELSE /\ UNCHANGED current_station_data_parts
                               /\ log' = Append(log, Event("read_failed", station_idx, file_idx))
                  ELSE /\ log' = Append(log,
                                  Event(IF file_year = None THEN "no_year_pattern"
                                        ELSE "year_mismatch", station_idx, file_idx))
                       /\ UNCHANGED <<current_station_data_parts,
                                      found_files_for_station_year>>
    /\ file_idx' = file_idx + 1
    /\ UNCHANGED <<mode, pc, yvars, rvars, invars, fsvars, valid_station_paths,
                   station_idx, all_station_series, dfvars, export_attempts,
                   outcome>>

\* Lines 153-160: the end of one station.
EndStation ==
    /\ mode \in {"run", "station"}
    /\ pc = "entries"
    /\ file_idx > Len(dir_entries[valid_station_paths[station_idx]].entries)
    /\ LET station_name == basename(valid_station_paths[station_idx])
       IN  /\ all_station_series' =
                 collect(all_station_series, station_name, current_station_data_parts)
           /\ log' = Append(log,
                 Event(IF current_station_data_parts # <<>> THEN "collected"
                       ELSE IF ~found_files_for_station_year THEN "no_matching_files"
                       ELSE "no_valid_data", station_idx, 0))
    /\ station_idx' = station_idx + 1
    /\ pc' = "station"
    /\ UNCHANGED <<mode, yvars, rvars, invars, fsvars, valid_station_paths,
                   file_idx, current_station_data_parts,
                   found_files_for_station_year, dfvars, export_attempts,
                   outcome>>

\* Lines 162-164
CheckCollected ==
    /\ mode = "run"
    /\ pc = "station"
    /\ station_idx > Len(valid_station_paths)
    /\ IF all_station_series = <<>>
       THEN outcome' = "no_data" /\ pc' = "done"
       ELSE pc' = "consolidate" /\ UNCHANGED outcome
    /\ UNCHANGED <<mode, yvars, rvars, invars, fsvars, loopvars, dfvars,
                   export_attempts, log>>

\* Lines 169-170
Consolidate ==
    /\ mode = "run"
    /\ pc = "consolidate"
    /\ df_consolidated' = concat_columns(all_station_series)
    /\ pc' = "day_of_year"
    /\ UNCHANGED <<mode, yvars, rvars, invars, fsvars, loopvars, df_processed,
                   df_final, endvars>>

\* Lines 173-185
AddDayOfYear ==
    /\ mode = "run"
    /\ pc = "day_of_year"
    /\ df_processed' = insert_day_of_year(df_consolidated)
    /\ pc' = "means"
    /\ UNCHANGED <<mode, yvars, rvars, invars, fsvars, loopvars,
                   df_consolidated, df_final, endvars>>

\* Lines 189-202
AppendMeanRow ==
    /\ mode = "run"
    /\ pc = "means"
    /\ df_final' = append_mean_row(df_processed)
    /\ pc' = "export"
    /\ UNCHANGED <<mode, yvars, rvars, invars, fsvars, loopvars,
                   df_consolidated, df_processed, endvars>>

\* Lines 205-212: to_excel either writes the file or raises, and the run
\* ends either way.
Export ==
    /\ mode = "run"
    /\ pc = "export"
    /\ export_attempts' = export_attempts + 1
    /\ \E written \in BOOLEAN :
         outcome' = IF written THEN "saved" ELSE "save_error"
    /\ pc' = "done"
    /\ UNCHANGED <<mode, yvars, rvars, invars, fsvars, loopvars, dfvars, log>>

Next ==
    \/ InputNumStations
    \/ InputStationName
    \/ InputTargetYear
    \/ CheckBasePath
    \/ ValidateStationFolder
    \/ CheckValidStationPaths
    \/ BeginStation
    \/ ProcessEntry
    \/ EndStation
    \/ CheckCollected
    \/ Consolidate
    \/ AddDayOfYear
    \/ AppendMeanRow
    \/ Export

Spec == Init /\ [][Next]_vars

----------------------------------------------------------------------------
(* Specification of the station loop alone (lines 123-160), entered from *)
(* the state a run is in once the one station given has been validated.   *)

InitStation ==
    /\ mode = "station"
    /\ pc = "station"
    /\ filename = <<>>
    /\ full_year = None
    /\ filepath = NoFile
    /\ extracted_data = NoData
    /\ num_stations = 1
    /\ station_names = <<"A">>
    /\ target_year \in {y \in YearInputs : 1900 <= y /\ y <= 2099}
    /\ base_isdir = TRUE
    /\ station_dirs = {path_join(base_path, "A")}
    /\ dir_entries = [p \in StationPaths |-> Unlisted]
    /\ valid_station_paths = <<path_join(base_path, "A")>>
    /\ station_idx = 1
    /\ file_idx = 0
    /\ current_station_data_parts = <<>>
    /\ found_files_for_station_year = FALSE
    /\ all_station_series = <<>>
    /\ df_consolidated = EmptyTable
    /\ df_processed = EmptyTable
    /\ df_final = EmptyTable
    /\ export_attempts = 0
    /\ outcome = "running"
    /\ log = <<Event("found_folder", 1, 0)>>

NextStation ==
    \/ BeginStation
    \/ ProcessEntry
    \/ EndStation

SpecStation == InitStation /\ [][NextStation]_vars

----------------------------------------------------------------------------
(* Properties of extract_year_from_filename (checked under SpecYear) *)

YearReturned == mode = "year" /\ pc = "ret"

\* C1: when the decoder finds a two-digit tag t, the year it returns is
\* 1900 + t if t > 50 and 2000 + t if t <= 50; tag 50 gives 2050 and tag 51
\* gives 1951, whatever precedes the tag.
C1_CenturyRule ==
    (YearReturned /\ re_search(filename) # 0) =>
        LET t == two_digit_year(filename)
        IN  /\ t \in 0..99
            /\ full_year.some
            /\ (t > 50 => full_year.val = 1900 + t)
            /\ (t <= 50 => full_year.val = 2000 + t)
            /\ (t = 50 => full_year.val = 2050)
            /\ (t = 51 => full_year.val = 1951)

\* A name with two characters before the tag 50 has been decoded to 2050.
C1_Witness ==
    /\ YearReturned
    /\ re_search(filename) = 3
    /\ two_digit_year(filename) = 50
    /\ full_year = Some(2050)

\* The shape the claim names: a dot, two digits, then the end of the name or
\* another dot followed by anything at all.
EndsWithTagAndAnySuffix(s) ==
    \E p \in 1..Len(s) :
        /\ p + 2 <= Len(s)
        /\ s[p] = "."
        /\ s[p + 1] \in DigitChars
        /\ s[p + 2] \in DigitChars
        /\ (p + 2 = Len(s) \/ s[p + 3] = ".")

\* The shape the pattern accepts: a dot, two digits, then the end of the
\* name, a single final newline, or another dot followed by a suffix that
\* holds no dot.
EndsWithTagAndDotlessSuffix(s) ==
    \E p \in 1..Len(s) :
        /\ p + 2 <= Len(s)
        /\ s[p] = "."
        /\ s[p + 1] \in DigitChars
        /\ s[p + 2] \in DigitChars
        /\ \/ p + 2 = Len(s)
           \/ p + 3 = Len(s) /\ s[p + 3] = "\n"
           \/ p + 3 <= Len(s) /\ s[p + 3] = "."
                /\ \A k \in (p + 4)..Len(s) : s[k] # "."

\* C2 as stated: a year is returned exactly for the names that end with a
\* dot and two digits, optionally followed by a dot and an arbitrary suffix;
\* every other name gives None.
C2_AnySuffix ==
    YearReturned =>
        /\ (full_year.some <=> EndsWithTagAndAnySuffix(filename))
        /\ (~full_year.some => full_year = None)

\* C2 amended: a year is returned exactly for the names that end with a dot
\* and two digits followed by nothing, by one final newline, or by a dot and
\* a suffix without a dot; every other name gives None.
C2_DotlessSuffix ==
    YearReturned =>
        /\ (full_year.some <=> EndsWithTagAndDotlessSuffix(filename))
        /\ (~full_year.some => full_year = None)

\* A name with an extension has been decoded, and the tag is the one before
\* the extension.
C2_Witness ==
    /\ YearReturned
    /\ filename = <<".", "1", "5", ".", "a">>
    /\ full_year = Some(2015)

----------------------------------------------------------------------------
(* Properties of read_custom_space_separated_file (checked under SpecRead) *)

\* The records of a file: its lines that hold at least one field.
Records(file) == SelectSeq(file.lines, LAMBDA l : l # <<>>)

IsNumber(tok) == tok # <<>> /\ \A k \in 1..Len(tok) : tok[k] \in DigitChars

ExpectedCell(rec) ==
    IF Len(rec) >= 2 /\ IsNumber(rec[2])
    THEN Numeric(DecimalValue(rec[2]))
    ELSE Missing

\* C3: a successful read returns one entry per record, in record order;
\* entry k is the number in record k's second field, or Missing when that
\* field is not a number, so no record is dropped or shifted.
C3_OneEntryPerRecord ==
    (mode = "read" /\ pc = "ret" /\ extracted_data.ok) =>
        LET recs == Records(filepath)
        IN  /\ Len(extracted_data.series) = Len(recs)
            /\ \A k \in 1..Len(recs) :
                 extracted_data.series[k] = ExpectedCell(recs[k])

\* A file whose first record has a malformed second field and whose second
\* record has the number 7 there has been read.
C3_Witness ==
    /\ mode = "read"
    /\ pc = "ret"
    /\ extracted_data.ok
    /\ extracted_data.series = <<Missing, Numeric(7)>>

----------------------------------------------------------------------------
(* Properties of run_climate_processor (C4 under SpecStation, the others *)
(* under Spec)                                                           *)

\* A directory entry that is a file of the target year and reads well.
Contributes(entry) ==
    /\ ~entry.isdir
    /\ extract_year_from_filename(entry.name) = Some(target_year)
    /\ read_custom_space_separated_file(entry.file).ok

RECURSIVE ExpectedColumn(_)
ExpectedColumn(entries) ==
    IF entries = <<>> THEN <<>>
    ELSE (IF Contributes(Head(entries))
          THEN read_custom_space_separated_file(Head(entries).file).series
          ELSE <<>>)
         \o ExpectedColumn(Tail(entries))

RECURSIVE ExpectedLength(_)
ExpectedLength(entries) ==
    IF entries = <<>> THEN 0
    ELSE (IF Contributes(Head(entries))
          THEN Len(read_custom_space_separated_file(Head(entries).file).series)
          ELSE 0)
         + ExpectedLength(Tail(entries))

EntriesOf(station_name) == dir_entries[path_join(base_path, station_name)].entries

\* C4: a station's column is the concatenation, in listing order, of the
\* series of exactly the entries that are files of the target year and read
\* well; its length is the sum of their lengths.
C4_ColumnIsConcatenation ==
    mode = "station" =>
        \A k \in 1..Len(all_station_series) :
            LET entries == EntriesOf(all_station_series[k].key[1])
            IN  /\ all_station_series[k].series = ExpectedColumn(entries)
                /\ Len(all_station_series[k].series) = ExpectedLength(entries)

\* A station whose folder lists the one-record file and then the
\* three-record file has a column of four cells, the one-record file's first.
C4_Witness ==
    /\ mode = "station"
    /\ \E k \in 1..Len(all_station_series) :
         /\ Len(EntriesOf(all_station_series[k].key[1])) = 2
         /\ all_station_series[k].series =
              <<Missing, Numeric(10), Missing, Numeric(12)>>

\* A station yields data: its folder exists and lists at least one file of
\* the target year that reads well.
Yields(station_name) ==
    /\ path_join(base_path, station_name) \in station_dirs
    /\ \E e \in 1..Len(EntriesOf(station_name)) :
         Contributes(EntriesOf(station_name)[e])

HasColumn(df, station_name) ==
    \E c \in 1..Len(df.columns) : df.columns[c] = DataKey(station_name)

StationsGiven == {station_names[k] : k \in 1..Len(station_names)}

TableBuilt == mode = "run" /\ pc = "day_of_year"

\* C5: in the consolidated table a station has a column exactly when it has
\* at least one file of the target year that reads well.
C5_ColumnIffYields ==
    TableBuilt =>
        \A n \in StationsGiven : HasColumn(df_consolidated, n) <=> Yields(n)

\* A table with one station column was built in a run where a station's
\* matching files all failed to read.
C5_Witness ==
    /\ TableBuilt
    /\ \E k \in 1..Len(log) : log[k].kind = "no_valid_data"
    /\ Len(df_consolidated.columns) = 1

TableProcessed == mode = "run" /\ pc = "means"

\* C6: every column of the consolidated table has the length N of the
\* longest station column; a station's cells 1..len are its own, in place,
\* its cells len+1..N are Missing; the day-index column holds 1..N in order.
C6_PaddedToLongest ==
    TableProcessed =>
        LET d == all_station_series
            n == NumRows(df_processed)
        IN  /\ Len(df_processed.columns) = Len(d) + 1
            /\ Len(df_processed.data) = Len(d) + 1
            /\ \A c \in 1..Len(df_processed.data) : Len(df_processed.data[c]) = n
            /\ \E k \in 1..Len(d) : Len(d[k].series) = n
            /\ \A k \in 1..Len(d) : Len(d[k].series) <= n
            /\ \A k \in 1..Len(d) : \A r \in 1..n :
                 df_processed.data[k + 1][r] =
                    IF r <= Len(d[k].series) THEN d[k].series[r] ELSE Missing
            /\ \A r \in 1..n : df_processed.data[1][r] = Numeric(r)

\* A table of three rows holds a station column of one cell, padded by two.
C6_Witness ==
    /\ TableProcessed
    /\ NumRows(df_processed) = 3
    /\ \E k \in 1..Len(all_station_series) :
         /\ Len(all_station_series[k].series) = 1
         /\ df_processed.data[k + 1][3] = Missing

TableFinal == mode = "run" /\ pc = "export"

\* C7: the final table is the consolidated table plus one last row, "Mean"
\* under the day index and under each station the mean of its Numeric cells
\* (Missing when it has none); no other row changes, no other cell is a label.
C7_MeanRowAppended ==
    TableFinal =>
        LET n == NumRows(df_processed)
        IN  /\ df_final.columns = df_processed.columns
            /\ Len(df_final.data) = Len(df_processed.data)
            /\ \A c \in 1..Len(df_final.data) :
                 /\ Len(df_final.data[c]) = n + 1
                 /\ SubSeq(df_final.data[c], 1, n) = df_processed.data[c]
                 /\ \A r \in 1..n : df_final.data[c][r].kind # "Label"
            /\ df_final.data[1][n + 1] = Label("Mean")
            /\ \A c \in 2..Len(df_final.data) :
                 LET col == df_processed.data[c]
                     m == df_final.data[c][n + 1]
                 IN  IF CountNumeric(col) = 0
                     THEN m = Missing
                     ELSE /\ m.kind = "Numeric"
                          /\ m.den > 0
                          /\ m.num * CountNumeric(col) = SumNumeric(col) * m.den

\* A final table whose mean row holds 11 for a column 10, Missing, 12 and
\* Missing for a column without a number.
C7_Witness ==
    /\ TableFinal
    /\ \E c \in 2..Len(df_final.data) :
         /\ df_processed.data[c] = <<Numeric(10), Missing, Numeric(12)>>
         /\ df_final.data[c][4] = Numeric(11)
    /\ \E c \in 2..Len(df_final.data) : df_final.data[c][4] = Missing

EntryKinds == {"skip_directory", "read", "read_failed", "no_year_pattern",
               "year_mismatch"}
StationEndKinds == {"collected", "no_matching_files", "no_valid_data"}

Logged(kinds, st, en) ==
    \E k \in 1..Len(log) : log[k].kind \in kinds /\ log[k].st = st /\ log[k].en = en

EveryStationProcessed ==
    \A v \in 1..Len(valid_station_paths) :
        /\ \A e \in 1..Len(dir_entries[valid_station_paths[v]].entries) :
             Logged(EntryKinds, v, e)
        /\ Logged(StationEndKinds, v, 0)

RECURSIVE IncludedOrder(_, _)
IncludedOrder(names, seen) ==
    IF names = <<>> THEN <<>>
    ELSE IF Head(names) \notin seen /\ Yields(Head(names))
         THEN <<DataKey(Head(names))>>
              \o IncludedOrder(Tail(names), seen \cup {Head(names)})
         ELSE IncludedOrder(Tail(names), seen)

\* C9: the exported table's columns are the day index, then one column per
\* included station in processing order, also when a name is given twice.
C9_ColumnOrder ==
    TableFinal =>
        df_final.columns = <<<<"Day_of_Year">>>> \o IncludedOrder(station_names, {})

\* A run given the same name twice exported one column for it.
C9_Witness ==
    /\ TableFinal
    /\ station_names = <<"A", "A">>
    /\ df_final.columns = <<<<"Day_of_Year">>, DataKey("A")>>

UndecodableTarget == mode = "run" /\ target_year # 0 /\ target_year \notin 1951..2050

NothingMatched ==
    /\ ~found_files_for_station_year
    /\ current_station_data_parts = <<>>
    /\ all_station_series = <<>>
    /\ \A k \in 1..Len(log) : log[k].kind \notin {"read", "read_failed", "collected"}
    /\ export_attempts = 0
    /\ pc = "done" =>
          \A p \in StationPaths : \A e \in 1..Len(dir_entries[p].entries) :
             LET y == extract_year_from_filename(dir_entries[p].entries[e].name)
             IN  y.some => y.val \in 1951..2050

\* C10 as stated: with an accepted target year outside 1951..2050 nothing is
\* matched or read and the run always ends with "no data collected".
C10_AlwaysNoData ==
    UndecodableTarget =>
        /\ NothingMatched
        /\ pc = "done" => outcome = "no_data"

\* C10 amended: with an accepted target year outside 1951..2050 nothing is
\* matched or read and the run ends without an export: with "no data
\* collected" when the base directory and a station folder exist, with the
\* missing-base or no-valid-folder exit otherwise.
C10_NeverExports ==
    UndecodableTarget =>
        /\ NothingMatched
        /\ pc = "done" =>
             /\ outcome \in {"base_missing", "no_valid_folders", "no_data"}
             /\ outcome = "no_data" <=> (base_isdir /\ valid_station_paths # <<>>)

\* A run for 1950 over a folder holding a file tagged 50 ended with "no data
\* collected".
C10_Witness ==
    /\ UndecodableTarget
    /\ pc = "done"
    /\ outcome = "no_data"
    /\ \E k \in 1..Len(log) : log[k].kind = "year_mismatch"

====
